---------------------------- MODULE Spec2Model ----------------------------
(***************************************************************************)
(* A state-machine model of one-h-whack (src/src/main.go): the translation *)
(* cache, the name resolver translateText, the directory lister, the       *)
(* asynchronous commands and the bubbletea Update loop.                    *)
(*                                                                         *)
(* Strings are sequences of one-character tokens, so that extensions, case *)
(* folding and the letter test are computed and not assumed.  The tokens   *)
(* "e_acute" and "e_grave" stand for the two-byte accented characters of   *)
(* the dictionary values.  A path is the sequence of its elements; the     *)
(* root directory is the empty sequence.                                   *)
(*                                                                         *)
(* Every goroutine started by a command is a step of its own; a message    *)
(* waits in a bag until the event loop takes it, in any order.  The list's *)
(* filter, the window size and the quit keys are left out: no property     *)
(* below reads them.  Names typed into the confirmation field are single   *)
(* path elements.                                                          *)
(***************************************************************************)
EXTENDS Bags, FiniteSets, Integers, Sequences, TLC

VARIABLES
  fs,             \* the filesystem: path -> "file" | "dir" | "locked"
  cache,          \* translationCache.cache: name -> translation
  jobs,           \* bag of running translateNameCmd goroutines [name, pc]
  tmsgs,          \* bag of translationMsg values not yet handled by Update
  rjobs,          \* bag of running renameFileCmd goroutines [oldPath, newPath]
  rmsgs,          \* bag of renameCompleteMsg values not yet handled by Update
  currentPath,    \* model.currentPath
  items,          \* model.list items, in display order
  cursor,         \* model.list selection index (1-based)
  mode,           \* model.mode
  confirmInput,   \* model.confirmInput value
  itemToRename,   \* model.itemToRename
  proposedName,   \* model.proposedName
  statusMessage,  \* model.statusMessage
  started,        \* whether model.Init has run
  keys,           \* history: number of key events handled
  remoteCalls,    \* history: bag of the texts the remote service was called for
  returned,       \* history: set of <<name, translation>> returned by translateText
  crashed,        \* history: a panic escaped translateText
  cache0,         \* history: the cache at startup
  last            \* history: the last step taken

vars == <<fs, cache, jobs, tmsgs, rjobs, rmsgs, currentPath, items, cursor,
          mode, confirmInput, itemToRename, proposedName, statusMessage,
          started, keys, remoteCalls, returned, crashed, cache0, last>>

uiVars == <<currentPath, items, cursor, mode, confirmInput, itemToRename,
            proposedName, statusMessage, started>>

-----------------------------------------------------------------------------
(* Bounds of the model *)

\* longest name drawn as an input of translateText
MaxLen == 3
\* most translateText calls running side by side in SpecConcurrent
MaxJobs == 3
\* most translation goroutines and unhandled translationMsg values at a time
MaxPending == 2
\* most rename goroutines and unhandled renameCompleteMsg values at a time
MaxRenames == 2
\* most key events the user sends
MaxKeys == 4

-----------------------------------------------------------------------------
(* Strings *)

UpperCase == <<"A","B","C","D","E","F","G","H","I","J","K","L","M",
               "N","O","P","Q","R","S","T","U","V","W","X","Y","Z">>
LowerCase == <<"a","b","c","d","e","f","g","h","i","j","k","l","m",
               "n","o","p","q","r","s","t","u","v","w","x","y","z">>

Range(s) == {s[i] : i \in 1..Len(s)}

\* r >= 'a' && r <= 'z' || r >= 'A' && r <= 'Z'
IsLetter(c) == c \in Range(UpperCase) \cup Range(LowerCase)

containsLetters(s) == \E i \in 1..Len(s) : IsLetter(s[i])

\* simple case folding of one character
Fold(c) ==
  IF c \in Range(UpperCase)
    THEN LowerCase[CHOOSE i \in 1..Len(UpperCase) : UpperCase[i] = c]
    ELSE c

EqualFold(s, t) ==
  /\ Len(s) = Len(t)
  /\ \A i \in 1..Len(s) : Fold(s[i]) = Fold(t[i])

\* number of bytes of the UTF-8 encoding of a character token
CharBytes(c) == IF c \in {"e_acute", "e_grave"} THEN 2 ELSE 1

RECURSIVE ByteLen(_)
ByteLen(s) == IF s = <<>> THEN 0 ELSE CharBytes(Head(s)) + ByteLen(Tail(s))

\* filepath.Ext of a single path element: the suffix from the last dot on
Ext(s) ==
  LET dots == {i \in 1..Len(s) : s[i] = "."}
  IN  IF dots = {} THEN <<>>
      ELSE LET d == CHOOSE i \in dots : \A j \in dots : j <= i
           IN  SubSeq(s, d, Len(s))

\* strings.TrimSuffix(text, filepath.Ext(text))
TrimExt(s) == SubSeq(s, 1, Len(s) - Len(Ext(s)))

HasDotPrefix(s) == Len(s) > 0 /\ s[1] = "."

-----------------------------------------------------------------------------
(* The static dictionary *)

staticTranslations == {
    <<<<"D","e","s","k","t","o","p">>,
      <<"B","u","r","e","a","u">>>>,
    <<<<"D","o","c","u","m","e","n","t","s">>,
      <<"D","o","c","u","m","e","n","t","s">>>>,
    <<<<"D","o","w","n","l","o","a","d","s">>,
      <<"T","e_acute","l","e_acute","c","h","a","r","g","e","m","e","n","t","s">>>>,
    <<<<"P","i","c","t","u","r","e","s">>,
      <<"I","m","a","g","e","s">>>>,
    <<<<"M","u","s","i","c">>,
      <<"M","u","s","i","q","u","e">>>>,
    <<<<"V","i","d","e","o","s">>,
      <<"V","i","d","e_acute","o","s">>>>,
    <<<<"H","o","m","e">>,
      <<"A","c","c","u","e","i","l">>>>,
    <<<<"F","o","l","d","e","r">>,
      <<"D","o","s","s","i","e","r">>>>,
    <<<<"F","i","l","e">>,
      <<"F","i","c","h","i","e","r">>>>,
    <<<<"P","u","b","l","i","c">>,
      <<"P","u","b","l","i","c">>>>,
    <<<<"T","e","m","p","l","a","t","e","s">>,
      <<"M","o","d","e_grave","l","e","s">>>>,
    <<<<"L","i","b","r","a","r","y">>,
      <<"B","i","b","l","i","o","t","h","e_grave","q","u","e">>>>,
    <<<<"A","p","p","l","i","c","a","t","i","o","n","s">>,
      <<"A","p","p","l","i","c","a","t","i","o","n","s">>>>,
    <<<<"M","o","v","i","e","s">>,
      <<"F","i","l","m","s">>>>,
    <<<<"b","i","n">>,
      <<"b","i","n","a","i","r","e">>>>,
    <<<<"s","r","c">>,
      <<"s","o","u","r","c","e">>>>,
    <<<<"p","k","g">>,
      <<"p","a","q","u","e","t","s">>>>,
    <<<<"t","m","p">>,
      <<"t","e","m","p","o","r","a","i","r","e">>>>,
    <<<<"o","p","t">>,
      <<"o","p","t","i","o","n","n","e","l">>>>,
    <<<<"u","s","r">>,
      <<"u","t","i","l","i","s","a","t","e","u","r">>>>,
    <<<<"v","a","r">>,
      <<"v","a","r","i","a","b","l","e">>>>,
    <<<<"e","t","c">>,
      <<"c","o","n","f","i","g","u","r","a","t","i","o","n">>>>
  }

-----------------------------------------------------------------------------
(* TranslationCache *)

CacheHas(c, key) == key \in DOMAIN c

\* translationCache.Get: the value and whether the key is present
Get(c, key) ==
  IF key \in DOMAIN c THEN [val |-> c[key], ok |-> TRUE]
                      ELSE [val |-> <<>>, ok |-> FALSE]

\* a variant that does not store a name under itself
SetUnlessSame(c, key, val) ==
  IF val = key THEN c
  ELSE [k \in DOMAIN c \cup {key} |-> IF k = key THEN val ELSE c[k]]

\* a variant whose store is not serialized with the others: the map written
\* back holds the new key only
SetLosingOthers(c, key, val) == [k \in {key} |-> val]

\* translationCache.Set: an unconditional store
Set(c, key, val) ==
  [k \in DOMAIN c \cup {key} |-> IF k = key THEN val ELSE c[k]]

EmptyCache == [k \in {} |-> <<>>]

-----------------------------------------------------------------------------
(* NameResolver: translateText, cut at its cache accesses and its remote call *)

\* staticTranslations[text]
StaticExact(text) == {e[2] : e \in {d \in staticTranslations : d[1] = text}}

\* the range loop with strings.EqualFold; the map is walked in any order
StaticFold(text) ==
  {e[2] : e \in {d \in staticTranslations : EqualFold(d[1], text)}}

\* a variant without the containsLetters test
LocalResolveNoLetterTest(text) ==
  LET nameWithoutExt == TrimExt(text)
  IN  IF StaticExact(text) # {}
        THEN {[kind |-> "set", val |-> v] : v \in StaticExact(text)}
      ELSE IF StaticFold(text) # {}
        THEN {[kind |-> "set", val |-> v] : v \in StaticFold(text)}
      ELSE IF ByteLen(nameWithoutExt) <= 1
        THEN {[kind |-> "set", val |-> text]}
      ELSE {[kind |-> "remote", val |-> nameWithoutExt]}

\* a variant without the case-insensitive loop
LocalResolveExactOnly(text) ==
  LET nameWithoutExt == TrimExt(text)
  IN  IF StaticExact(text) # {}
        THEN {[kind |-> "set", val |-> v] : v \in StaticExact(text)}
      ELSE IF ByteLen(nameWithoutExt) <= 1
        THEN {[kind |-> "set", val |-> text]}
      ELSE IF ~containsLetters(nameWithoutExt)
        THEN {[kind |-> "set", val |-> text]}
      ELSE {[kind |-> "remote", val |-> nameWithoutExt]}

\* translateText between its cache miss and its remote call: the value it
\* stores and returns ("set"), or the stem it sends to the remote service
LocalResolve(text) ==
  LET nameWithoutExt == TrimExt(text)
  IN  IF StaticExact(text) # {}
        THEN {[kind |-> "set", val |-> v] : v \in StaticExact(text)}
      ELSE IF StaticFold(text) # {}
        THEN {[kind |-> "set", val |-> v] : v \in StaticFold(text)}
      ELSE IF ByteLen(nameWithoutExt) <= 1
        THEN {[kind |-> "set", val |-> text]}
      ELSE IF ~containsLetters(nameWithoutExt)
        THEN {[kind |-> "set", val |-> text]}
      ELSE {[kind |-> "remote", val |-> nameWithoutExt]}

\* what gt.TranslateWithParam may do: return a text (an empty one too),
\* return an error, panic
RemoteTexts == {<<"x","y">>, <<>>}

RemoteOutcomes ==
  {[kind |-> "ok", text |-> t] : t \in RemoteTexts}
    \cup {[kind |-> "err", text |-> <<>>], [kind |-> "panic", text |-> <<>>]}

\* a variant without the deferred recover: a panic leaves translateText
CallRemoteNoRecover(text, outcome) ==
  [err        |-> outcome.kind = "err",
   translated |-> IF outcome.kind = "ok" THEN outcome.text \o Ext(text)
                                         ELSE <<>>,
   escaped    |-> outcome.kind = "panic"]

\* the closure around the remote call, with its deferred recover
CallRemote(text, outcome) ==
  [err        |-> outcome.kind \in {"err", "panic"},
   translated |-> IF outcome.kind = "ok" THEN outcome.text \o Ext(text)
                                         ELSE <<>>,
   escaped    |-> FALSE]

\* the value translateText stores and returns after the remote call
AfterRemote(text, r) == IF r.err THEN text ELSE r.translated

\* translateNameCmd's message; dir and stale are history: the directory the
\* command was queued for, and whether another one was shown when it ended
translationMsg(name, translation, dir, stale) ==
  [name |-> name, translation |-> translation, dir |-> dir, stale |-> stale]

Job(name, dir, pc) == [name |-> name, dir |-> dir, pc |-> pc]

Running == ~crashed

Step(op, name, dir, stale) ==
  [op |-> op, name |-> name, dir |-> dir, stale |-> stale]

\* translateText returns `translation` for job j, and the command posts it
Return(j, translation) ==
  /\ jobs' = jobs (-) SetToBag({j})
  /\ tmsgs' = tmsgs (+) SetToBag({translationMsg(j.name, translation, j.dir,
                                               j.dir # currentPath)})
  /\ returned' = returned \cup {<<j.name, translation>>}

\* cache.Get at the top of translateText
JobGet(j) ==
  /\ Running
  /\ BagIn(j, jobs) /\ j.pc = "get"
  /\ LET r == Get(cache, j.name)
     IN  IF r.ok
           THEN Return(j, r.val)
           ELSE /\ jobs' = (jobs (-) SetToBag({j}))
                             (+) SetToBag({Job(j.name, j.dir, "miss")})
                /\ UNCHANGED <<tmsgs, returned>>
  /\ last' = Step("get", <<>>, <<>>, FALSE)
  /\ UNCHANGED <<fs, cache, rjobs, rmsgs, uiVars, keys, remoteCalls, crashed,
                 cache0>>

\* dictionary and untranslatable-name branches, or the start of the remote call
JobLocal(j) ==
  /\ Running
  /\ BagIn(j, jobs) /\ j.pc = "miss"
  /\ \E d \in LocalResolve(j.name) :
       IF d.kind = "set"
         THEN /\ cache' = Set(cache, j.name, d.val)
              /\ Return(j, d.val)
              /\ UNCHANGED remoteCalls
         ELSE /\ jobs' = (jobs (-) SetToBag({j}))
                           (+) SetToBag({Job(j.name, j.dir, "remote")})
              /\ remoteCalls' = remoteCalls (+) SetToBag({j.name})
              /\ UNCHANGED <<cache, tmsgs, returned>>
  /\ last' = Step("local", <<>>, <<>>, FALSE)
  /\ UNCHANGED <<fs, rjobs, rmsgs, uiVars, keys, crashed, cache0>>

\* the remote call ends; translateText stores and returns
JobRemote(j) ==
  /\ Running
  /\ BagIn(j, jobs) /\ j.pc = "remote"
  /\ \E o \in RemoteOutcomes :
       LET r == CallRemote(j.name, o)
       IN  /\ IF r.escaped
                THEN /\ crashed' = TRUE
                     /\ jobs' = jobs (-) SetToBag({j})
                     /\ UNCHANGED <<cache, tmsgs, returned>>
                ELSE /\ cache' = Set(cache, j.name, AfterRemote(j.name, r))
                     /\ Return(j, AfterRemote(j.name, r))
                     /\ UNCHANGED crashed
           /\ last' = Step(o.kind, j.name, <<>>, FALSE)
  /\ UNCHANGED <<fs, rjobs, rmsgs, uiVars, keys, remoteCalls, cache0>>

-----------------------------------------------------------------------------
(* Paths and the filesystem collaborator *)

\* filepath.Dir: the parent; the root is its own parent
Dir(p) == IF p = <<>> THEN <<>> ELSE SubSeq(p, 1, Len(p) - 1)

\* filepath.Base: the last element
Base(p) == IF p = <<>> THEN <<"/">> ELSE p[Len(p)]

\* filepath.Join of a directory and one element
Join(p, name) == Append(p, name)

IsPrefix(p, q) == Len(p) <= Len(q) /\ SubSeq(q, 1, Len(p)) = p

\* byte order of the characters used in names
ByteOrder == <<".", "/", "0","1","2","3","4","5","6","7","8","9">>
               \o UpperCase \o LowerCase

Code(c) == CHOOSE i \in 1..Len(ByteOrder) : ByteOrder[i] = c

RECURSIVE Less(_, _)
Less(s, t) ==
  IF t = <<>> THEN FALSE
  ELSE IF s = <<>> THEN TRUE
  ELSE IF Head(s) # Head(t) THEN Code(Head(s)) < Code(Head(t))
  ELSE Less(Tail(s), Tail(t))

RECURSIVE SortNames(_)
SortNames(S) ==
  IF S = {} THEN <<>>
  ELSE LET m == CHOOSE x \in S : \A y \in S \ {x} : Less(x, y)
       IN  <<m>> \o SortNames(S \ {m})

\* os.ReadDir: the direct children sorted by name, or an error
ReadDir(f, path) ==
  IF path \notin DOMAIN f \/ f[path] # "dir"
    THEN [ok |-> FALSE, names |-> <<>>]
    ELSE [ok |-> TRUE,
          names |-> SortNames({Base(p) : p \in {q \in DOMAIN f :
                                 q # <<>> /\ Dir(q) = path}})]

IsDirEntry(f, p) == f[p] \in {"dir", "locked"}

\* the filesystem after a rename that succeeds: the subtree moves
Moved(f, old, new) ==
  LET gone == {p \in DOMAIN f : IsPrefix(old, p) \/ IsPrefix(new, p)}
      came == {new \o SubSeq(p, Len(old) + 1, Len(p)) :
                 p \in {q \in DOMAIN f : IsPrefix(old, q)}}
  IN  [p \in (DOMAIN f \ gone) \cup came |->
         IF p \in came THEN f[old \o SubSeq(p, Len(new) + 1, Len(p))]
                       ELSE f[p]]

\* os.Rename: the outcomes the operating system may give
RenameOutcomes(f, old, new) ==
  IF old \notin DOMAIN f
    THEN {[ok |-> FALSE, err |-> <<"ENOENT">>, fs |-> f]}
  ELSE IF new \in DOMAIN f /\ IsDirEntry(f, new)
    THEN {[ok |-> FALSE, err |-> <<"EEXIST">>, fs |-> f]}
  ELSE IF new \in DOMAIN f /\ IsDirEntry(f, old)
    THEN {[ok |-> FALSE, err |-> <<"ENOTDIR">>, fs |-> f]}
  ELSE {[ok |-> FALSE, err |-> <<"EACCES">>, fs |-> f],
        [ok |-> TRUE, err |-> <<>>,
         fs |-> IF old = new THEN f ELSE Moved(f, old, new)]}

renameCompleteMsg(oldPath, newPath, success, err) ==
  [oldPath |-> oldPath, newPath |-> newPath, success |-> success, err |-> err]

\* renameFileCmd's goroutine: os.Rename, then the message
RenameRun(j) ==
  /\ Running
  /\ BagIn(j, rjobs)
  /\ \E o \in RenameOutcomes(fs, j.oldPath, j.newPath) :
       /\ fs' = o.fs
       /\ rmsgs' = rmsgs (+) SetToBag({renameCompleteMsg(j.oldPath, j.newPath,
                                                        o.ok, o.err)})
       /\ last' = Step(IF o.ok THEN "renamed" ELSE "renameFailed",
                       <<>>, <<>>, FALSE)
  /\ rjobs' = rjobs (-) SetToBag({j})
  /\ UNCHANGED <<cache, jobs, tmsgs, uiVars, keys, remoteCalls, returned,
                 crashed, cache0>>

-----------------------------------------------------------------------------
(* DirectoryLister *)

Label(typeStr, text) == [typeStr |-> typeStr, text |-> text]

Pending == <<".", ".", ".">>

TypeStr(isDir) == IF isDir THEN "Dossier" ELSE "Fichier"

\* the item getDirectoryItems builds for one entry
NewItem(f, c, path, name) ==
  LET isDir  == IsDirEntry(f, Join(path, name))
      cached == Get(c, name)
  IN  [title       |-> name,
       translation |-> IF cached.ok THEN Label(TypeStr(isDir), cached.val)
                                    ELSE Label(TypeStr(isDir), Pending),
       path        |-> Join(path, name),
       isDir       |-> isDir,
       translating |-> ~cached.ok]

RECURSIVE SelectSeq2(_, _)
SelectSeq2(s, S) ==
  IF s = <<>> THEN <<>>
  ELSE IF Head(s) \in S THEN <<Head(s)>> \o SelectSeq2(Tail(s), S)
  ELSE SelectSeq2(Tail(s), S)

\* a variant that lists the hidden entries too
getDirectoryItemsWithHidden(f, c, path) ==
  LET entries == ReadDir(f, path)
      shown   == entries.names
  IN  IF ~entries.ok THEN [items |-> <<>>, cmds |-> <<>>]
      ELSE [items |-> [i \in 1..Len(shown) |-> NewItem(f, c, path, shown[i])],
            cmds  |-> SelectSeq2(shown,
                                 {n \in Range(shown) : ~CacheHas(c, n)})]

\* getDirectoryItems: the items and the names of the commands queued
getDirectoryItems(f, c, path) ==
  LET entries == ReadDir(f, path)
      shown   == SelectSeq2(entries.names,
                            {n \in Range(entries.names) : ~HasDotPrefix(n)})
  IN  IF ~entries.ok THEN [items |-> <<>>, cmds |-> <<>>]
      ELSE [items |-> [i \in 1..Len(shown) |-> NewItem(f, c, path, shown[i])],
            cmds  |-> SelectSeq2(shown,
                                 {n \in Range(shown) : ~CacheHas(c, n)})]

-----------------------------------------------------------------------------
(* UIStateMachine: the model value and its Update function *)

Status(kind, a, b) == [kind |-> kind, a |-> a, b |-> b]

\* statusMessage = ""
NoStatus == Status("", <<>>, <<>>)

\* "Renommage en cours..."
StatusRenaming == Status("renaming", <<>>, <<>>)

\* "Pas de traduction disponible"
StatusNoTranslation == Status("noTranslation", <<>>, <<>>)

\* "Renomme: old -> new"
StatusRenamed(oldPath, newPath) == Status("ok", Base(oldPath), Base(newPath))

\* "Erreur: err"
StatusError(err) == Status("err", err, <<>>)

\* the zero value of item
NoItem ==
  [title |-> <<>>, translation |-> Label("", <<>>), path |-> <<>>,
   isDir |-> FALSE, translating |-> FALSE]

\* the model value held by the event loop
M ==
  [currentPath |-> currentPath, items |-> items, cursor |-> cursor,
   mode |-> mode, confirmInput |-> confirmInput,
   itemToRename |-> itemToRename, proposedName |-> proposedName,
   statusMessage |-> statusMessage]

\* what Update returns: the new model, the translation commands (names, and
\* the directory they were queued for) and the rename commands
Result(m, cmds, dir, renames) ==
  [m |-> m, cmds |-> cmds, dir |-> dir, renames |-> renames]

NoCmd(m) == Result(m, <<>>, <<>>, <<>>)

\* a variant that drops the commands of the listing
navigateToDirectoryWithoutCommands(f, c, m, path) ==
  LET r == getDirectoryItems(f, c, path)
  IN  Result([m EXCEPT !.currentPath = path,
                       !.items = r.items,
                       !.cursor = 1,
                       !.statusMessage = NoStatus],
             <<>>, path, <<>>)

\* a variant without list.ResetSelected
navigateToDirectoryKeepSelected(f, c, m, path) ==
  LET r == getDirectoryItems(f, c, path)
  IN  Result([m EXCEPT !.currentPath = path,
                       !.items = r.items,
                       !.statusMessage = NoStatus],
             r.cmds, path, <<>>)

\* model.navigateToDirectory
navigateToDirectory(f, c, m, path) ==
  LET r == getDirectoryItems(f, c, path)
  IN  Result([m EXCEPT !.currentPath = path,
                       !.items = r.items,
                       !.cursor = 1,
                       !.statusMessage = NoStatus],
             r.cmds, path, <<>>)

\* a variant that forgets the comparison of titles: the first item is updated
UpdateTranslationMsgAnyTitle(m, msg) ==
  IF m.items = <<>> THEN NoCmd(m)
  ELSE NoCmd([m EXCEPT
         !.items[1].translation =
            Label(TypeStr(m.items[1].isDir), msg.translation),
         !.items[1].translating = FALSE])

\* a variant that labels every updated item as a file
UpdateTranslationMsgFileTag(m, msg) ==
  LET hits == {i \in 1..Len(m.items) : m.items[i].title = msg.name}
  IN  IF hits = {} THEN NoCmd(m)
      ELSE LET i == CHOOSE h \in hits : \A k \in hits : h <= k
           IN  NoCmd([m EXCEPT
                 !.items[i].translation =
                    Label(TypeStr(FALSE), msg.translation),
                 !.items[i].translating = FALSE])

\* Update, case translationMsg
UpdateTranslationMsg(m, msg) ==
  LET hits == {i \in 1..Len(m.items) : m.items[i].title = msg.name}
  IN  IF hits = {} THEN NoCmd(m)
      ELSE LET i == CHOOSE h \in hits : \A k \in hits : h <= k
           IN  NoCmd([m EXCEPT
                 !.items[i].translation =
                    Label(TypeStr(m.items[i].isDir), msg.translation),
                 !.items[i].translating = FALSE])

\* a variant that refreshes the directory after a failed rename too
UpdateRenameCompleteAlwaysRefresh(f, c, m, msg) ==
  navigateToDirectory(f, c,
    [m EXCEPT !.mode = "normal",
              !.statusMessage = IF msg.success
                                  THEN StatusRenamed(msg.oldPath, msg.newPath)
                                  ELSE StatusError(msg.err)],
    m.currentPath)

\* Update, case renameCompleteMsg
UpdateRenameComplete(f, c, m, msg) ==
  IF msg.success
    THEN navigateToDirectory(f, c,
           [m EXCEPT !.mode = "normal",
                     !.statusMessage = StatusRenamed(msg.oldPath, msg.newPath)],
           m.currentPath)
    ELSE NoCmd([m EXCEPT !.mode = "normal",
                         !.statusMessage = StatusError(msg.err)])

\* Update, case tea.KeyMsg in confirmRenameMode, key "esc"
UpdateConfirmEsc(m) ==
  NoCmd([m EXCEPT !.mode = "normal", !.statusMessage = NoStatus])

\* Update, case tea.KeyMsg in confirmRenameMode, key "enter"
UpdateConfirmEnter(m) ==
  LET newName == IF m.confirmInput = <<>> THEN m.proposedName
                                          ELSE m.confirmInput
      oldPath == m.itemToRename.path
      newPath == Join(Dir(oldPath), newName)
  IN  Result([m EXCEPT !.statusMessage = StatusRenaming], <<>>, <<>>,
             <<[oldPath |-> oldPath, newPath |-> newPath]>>)

\* Update, case tea.KeyMsg in confirmRenameMode, any other key: the text input
UpdateConfirmEdit(m, value) == NoCmd([m EXCEPT !.confirmInput = value])

HasSelected(m) == m.cursor <= Len(m.items)

\* Update, normal mode, key "left"
UpdateLeft(f, c, m) ==
  LET parentPath == Dir(m.currentPath)
  IN  IF parentPath # m.currentPath
        THEN navigateToDirectory(f, c, m, parentPath)
        ELSE NoCmd(m)

\* a variant that proposes a translation equal to the name too
UpdateEnterNoIdentityTest(c, m) ==
  IF ~HasSelected(m) THEN NoCmd(m)
  ELSE LET selectedItem == m.items[m.cursor]
           translation  == Get(c, selectedItem.title).val
       IN  IF translation = <<>>
             THEN NoCmd([m EXCEPT !.statusMessage = StatusNoTranslation])
             ELSE NoCmd([m EXCEPT !.mode = "confirm",
                                  !.itemToRename = selectedItem,
                                  !.proposedName = translation,
                                  !.confirmInput = translation,
                                  !.statusMessage = NoStatus])

\* Update, normal mode, key "enter"
UpdateEnter(c, m) ==
  IF ~HasSelected(m) THEN NoCmd(m)
  ELSE LET selectedItem == m.items[m.cursor]
           translation  == Get(c, selectedItem.title).val
       IN  IF translation = <<>> \/ translation = selectedItem.title
             THEN NoCmd([m EXCEPT !.statusMessage = StatusNoTranslation])
             ELSE NoCmd([m EXCEPT !.mode = "confirm",
                                  !.itemToRename = selectedItem,
                                  !.proposedName = translation,
                                  !.confirmInput = translation,
                                  !.statusMessage = NoStatus])

\* Update, normal mode, key "right"
UpdateRight(f, c, m) ==
  IF ~HasSelected(m) THEN NoCmd(m)
  ELSE LET selectedItem == m.items[m.cursor]
       IN  IF selectedItem.isDir
             THEN navigateToDirectory(f, c, m, selectedItem.path)
             ELSE NoCmd(m)

\* Update, normal mode, keys "up" and "down": list.Update moves the selection
UpdateCursor(m, to) == NoCmd([m EXCEPT !.cursor = to])

-----------------------------------------------------------------------------
(* The program: the event loop applying Update, and the goroutines *)

Home == <<<<"h">>>>

\* the filesystem at startup
InitFS ==
  (<<>> :> "locked")
    @@ (Home :> "dir")
    @@ (Join(Home, <<"7">>) :> "file")
    @@ (Join(Home, <<"a","b">>) :> "dir")
    @@ (Join(Join(Home, <<"a","b">>), <<".","c">>) :> "file")
    @@ (Join(Join(Home, <<"a","b">>), <<"a","b">>) :> "file")

\* values the user may type into the confirmation field
InputValues == {<<>>, <<"7">>}

Pendings(js, ms) == BagCardinality(js) + BagCardinality(ms)

\* the event loop takes Update's result: the model is replaced and every
\* command returned starts its goroutine
Apply(r, step) ==
  /\ currentPath' = r.m.currentPath
  /\ items' = r.m.items
  /\ cursor' = r.m.cursor
  /\ mode' = r.m.mode
  /\ confirmInput' = r.m.confirmInput
  /\ itemToRename' = r.m.itemToRename
  /\ proposedName' = r.m.proposedName
  /\ statusMessage' = r.m.statusMessage
  /\ jobs' = jobs (+) SetToBag({Job(n, r.dir, "get") : n \in Range(r.cmds)})
  /\ rjobs' = rjobs (+) SetToBag(Range(r.renames))
  /\ Pendings(jobs', tmsgs') <= MaxPending
  /\ Pendings(rjobs', rmsgs') <= MaxRenames
  /\ last' = step
  /\ UNCHANGED <<fs, cache, remoteCalls, returned, crashed, started, cache0>>

\* a variant that drops the startup listing's commands, as initialModel does
StartWithoutCommands ==
  /\ ~started /\ Running
  /\ started' = TRUE
  /\ last' = Step("start", <<>>, <<>>, FALSE)
  /\ UNCHANGED <<fs, cache, jobs, tmsgs, rjobs, rmsgs, currentPath, items,
                 cursor, mode, confirmInput, itemToRename, proposedName,
                 statusMessage, keys, remoteCalls, returned, crashed,
                 cache0>>

\* model.Init: the startup listing's commands
Start ==
  /\ ~started /\ Running
  /\ started' = TRUE
  /\ LET r == getDirectoryItems(fs, cache, currentPath)
     IN  /\ jobs' = jobs (+) SetToBag({Job(n, currentPath, "get") :
                                        n \in Range(r.cmds)})
         /\ last' = Step("start", <<>>, <<>>, FALSE)
  /\ UNCHANGED <<fs, cache, tmsgs, rjobs, rmsgs, currentPath, items, cursor,
                 mode, confirmInput, itemToRename, proposedName,
                 statusMessage, keys, remoteCalls, returned, crashed,
                 cache0>>

Ready == started /\ Running

HandleTranslationMsg(msg) ==
  /\ Ready /\ BagIn(msg, tmsgs)
  /\ tmsgs' = tmsgs (-) SetToBag({msg})
  /\ UNCHANGED <<rmsgs, keys>>
  /\ Apply(UpdateTranslationMsg(M, msg),
           Step("translationMsg", msg.name, msg.dir, msg.stale))

HandleRenameComplete(msg) ==
  /\ Ready /\ BagIn(msg, rmsgs)
  /\ rmsgs' = rmsgs (-) SetToBag({msg})
  /\ UNCHANGED <<tmsgs, keys>>
  /\ Apply(UpdateRenameComplete(fs, cache, M, msg),
           Step(IF msg.success THEN "renameOk" ELSE "renameErr",
                <<>>, <<>>, FALSE))

Key(r, op) ==
  /\ Ready /\ keys < MaxKeys
  /\ keys' = keys + 1
  /\ UNCHANGED <<tmsgs, rmsgs>>
  /\ Apply(r, Step(op, <<>>, <<>>, FALSE))

KeyConfirmEsc == mode = "confirm" /\ Key(UpdateConfirmEsc(M), "esc")

KeyConfirmEnter == mode = "confirm" /\ Key(UpdateConfirmEnter(M), "confirm")

KeyConfirmEdit ==
  /\ mode = "confirm"
  /\ \E v \in InputValues \ {confirmInput} : Key(UpdateConfirmEdit(M, v), "edit")

KeyLeft == mode = "normal" /\ Key(UpdateLeft(fs, cache, M), "left")

KeyEnter == mode = "normal" /\ Key(UpdateEnter(cache, M), "enter")

KeyRight == mode = "normal" /\ Key(UpdateRight(fs, cache, M), "right")

KeyUpDown ==
  /\ mode = "normal"
  /\ \E to \in {cursor - 1, cursor + 1} \cap (1..Len(items)) :
       Key(UpdateCursor(M, to), "cursor")

Init ==
  /\ fs = InitFS
  /\ cache = EmptyCache
  /\ jobs = EmptyBag /\ tmsgs = EmptyBag
  /\ rjobs = EmptyBag /\ rmsgs = EmptyBag
  /\ currentPath = Home
  /\ items = getDirectoryItems(InitFS, EmptyCache, Home).items
  /\ cursor = 1
  /\ mode = "normal"
  /\ confirmInput = <<>>
  /\ itemToRename = NoItem
  /\ proposedName = <<>>
  /\ statusMessage = NoStatus
  /\ started = FALSE
  /\ keys = 0
  /\ remoteCalls = EmptyBag
  /\ returned = {}
  /\ crashed = FALSE
  /\ cache0 = cache
  /\ last = Step("init", <<>>, <<>>, FALSE)

JobNext ==
  \/ \E j \in BagToSet(jobs) : JobGet(j)
  \/ \E j \in BagToSet(jobs) : JobLocal(j)
  \/ \E j \in BagToSet(jobs) : JobRemote(j)

Next ==
  \/ Start
  \/ JobNext
  \/ \E j \in BagToSet(rjobs) : RenameRun(j)
  \/ \E msg \in BagToSet(tmsgs) : HandleTranslationMsg(msg)
  \/ \E msg \in BagToSet(rmsgs) : HandleRenameComplete(msg)
  \/ KeyConfirmEsc
  \/ KeyConfirmEnter
  \/ KeyConfirmEdit
  \/ KeyLeft
  \/ KeyEnter
  \/ KeyRight
  \/ KeyUpDown

Spec == Init /\ [][Next]_vars

\* The runtime starts the program, every translateNameCmd goroutine is
\* scheduled and its remote call ends, and the event loop takes every
\* translationMsg sent to it.  Nothing is required of the user's keys, nor
\* of the renames.
FairSpec ==
  /\ Spec
  /\ WF_vars(Start)
  /\ WF_vars(JobNext)
  /\ WF_vars(\E msg \in BagToSet(tmsgs) : HandleTranslationMsg(msg))

-----------------------------------------------------------------------------
(* translateText alone: one call, for every short name and a few caches *)

Alphabet == {"b", "i", "n", "B", "7", "."}

RECURSIVE Words(_)
Words(n) ==
  IF n = 0 THEN {<<>>}
  ELSE LET shorter == Words(n - 1)
       IN  shorter \cup {Append(w, ch) : w \in shorter, ch \in Alphabet}

\* the names of the spec's examples
Examples ==
  {<<"x","y","z","1","2","3">>,
   <<"D","e","s","k","t","o","p">>,
   <<"d","e","s","k","t","o","p">>,
   <<"D","E","S","K","T","O","P">>,
   <<"r","e","p","o","r","t",".","t","x","t">>}

InputNames == (Words(MaxLen) \ {<<>>}) \cup Examples

\* caches the call may start from: empty, holding the name, holding another
CacheInits(text) ==
  {EmptyCache, (text :> <<"z">>), (<<"o">> :> <<"z">>)}

InitResolve ==
  /\ fs = InitFS
  /\ \E text \in InputNames :
       /\ cache \in CacheInits(text)
       /\ jobs = SetToBag({Job(text, <<>>, "get")})
  /\ tmsgs = EmptyBag
  /\ rjobs = EmptyBag /\ rmsgs = EmptyBag
  /\ currentPath = Home
  /\ items = getDirectoryItems(InitFS, EmptyCache, Home).items
  /\ cursor = 1
  /\ mode = "normal"
  /\ confirmInput = <<>>
  /\ itemToRename = NoItem
  /\ proposedName = <<>>
  /\ statusMessage = NoStatus
  /\ started = TRUE
  /\ keys = 0
  /\ remoteCalls = EmptyBag
  /\ returned = {}
  /\ crashed = FALSE
  /\ cache0 = cache
  /\ last = Step("init", <<>>, <<>>, FALSE)

SpecResolve == InitResolve /\ [][JobNext]_vars

-----------------------------------------------------------------------------
(* translateText called side by side for distinct names *)

NamePool ==
  {<<"a","b">>, <<"7">>, <<"b","i","n">>, <<"c","d",".","t">>,
   <<"d","e","s","k","t","o","p">>}

InitConcurrent ==
  /\ fs = InitFS
  /\ cache \in {EmptyCache, (<<"o">> :> <<"z">>)}
  /\ \E S \in SUBSET NamePool :
       /\ Cardinality(S) \in 2..MaxJobs
       /\ jobs = SetToBag({Job(n, <<>>, "get") : n \in S})
  /\ tmsgs = EmptyBag
  /\ rjobs = EmptyBag /\ rmsgs = EmptyBag
  /\ currentPath = Home
  /\ items = getDirectoryItems(InitFS, EmptyCache, Home).items
  /\ cursor = 1
  /\ mode = "normal"
  /\ confirmInput = <<>>
  /\ itemToRename = NoItem
  /\ proposedName = <<>>
  /\ statusMessage = NoStatus
  /\ started = TRUE
  /\ keys = 0
  /\ remoteCalls = EmptyBag
  /\ returned = {}
  /\ crashed = FALSE
  /\ cache0 = cache
  /\ last = Step("init", <<>>, <<>>, FALSE)

SpecConcurrent == InitConcurrent /\ [][JobNext]_vars

-----------------------------------------------------------------------------
(* Properties *)

Titles(its) == {its[i].title : i \in 1..Len(its)}

\* the step handles a translationMsg of a command queued for a directory
\* the user had left before the command ended, while another one is shown
StaleResultStep(msg) ==
  /\ HandleTranslationMsg(msg)
  /\ msg.stale
  /\ msg.dir # currentPath

\* C1, as stated: a result of a command queued for directory A, handled after
\* the user moved to another directory B before the command ended, leaves the
\* listing shown unchanged, whatever names B holds.
C1_StaleResultNeverChangesListing ==
  [][\A msg \in BagToSet(tmsgs) : StaleResultStep(msg) => items' = items]_vars

\* C1, amended: such a result leaves the listing unchanged when no entry
\* shown has the result's name; when one has, only entries of that name may
\* change, and a changed entry holds the result's label with its own type tag
\* and is no longer resolving.
C1_StaleResultDroppedUnlessNameShown ==
  [][\A msg \in BagToSet(tmsgs) : StaleResultStep(msg) =>
        /\ msg.name \notin Titles(items) => items' = items
        /\ Len(items') = Len(items)
        /\ \A i \in 1..Len(items) :
             \/ items'[i] = items[i]
             \/ /\ items[i].title = msg.name
                /\ items'[i] =
                     [items[i] EXCEPT
                        !.translation =
                           Label(TypeStr(items[i].isDir), msg.translation),
                        !.translating = FALSE]]_vars

\* C1, witness: a stale result was handled while a listing without its name
\* was shown
C1_StaleResultHandled ==
  /\ last.op = "translationMsg"
  /\ last.stale
  /\ last.dir # currentPath
  /\ items # <<>>
  /\ last.name \notin Titles(items)

\* C2, as stated: at most one rename command is outstanding (running, or
\* ended with its renameCompleteMsg not yet handled).
C2_AtMostOneRenameOutstanding == Pendings(rjobs, rmsgs) <= 1
\* C3, as stated: handling the message of a successful rename returns to
\* normal mode, lists the current directory once, starts the commands of the
\* names not cached, and leaves the success status shown.
C3_SuccessfulRenameRefreshesAndShowsSuccess ==
  [][\A msg \in BagToSet(rmsgs) :
       (HandleRenameComplete(msg) /\ msg.success) =>
         LET listing == getDirectoryItems(fs, cache, currentPath)
         IN  /\ mode' = "normal"
             /\ currentPath' = currentPath
             /\ items' = listing.items
             /\ jobs' = jobs (+) SetToBag({Job(n, currentPath, "get") :
                                            n \in Range(listing.cmds)})
             /\ statusMessage' = StatusRenamed(msg.oldPath, msg.newPath)]_vars

\* C4: handling the message of a failed rename returns to normal mode, keeps
\* the items, the path and the selection, shows the error of the message and
\* starts no command; and a rename that fails leaves the filesystem as it was.
C4_FailedRenameKeepsListingAndShowsError ==
  [][/\ \A msg \in BagToSet(rmsgs) :
          (HandleRenameComplete(msg) /\ ~msg.success) =>
            /\ mode' = "normal"
            /\ items' = items
            /\ currentPath' = currentPath
            /\ cursor' = cursor
            /\ msg.err # <<>>
            /\ statusMessage' = StatusError(msg.err)
            /\ jobs' = jobs
            /\ rjobs' = rjobs
            /\ fs' = fs
     /\ \A j \in BagToSet(rjobs) :
          (RenameRun(j) /\ last'.op = "renameFailed") => fs' = fs]_vars

\* C4, witness: the message of a failed rename was handled
C4_FailedRenameHandled ==
  /\ last.op = "renameErr"
  /\ mode = "normal"
  /\ statusMessage.kind = "err"
  /\ items # <<>>

\* the step lists a directory: a key that navigates, or a rename's refresh
NavigationStep ==
  \/ last'.op = "left" /\ Dir(currentPath) # currentPath
  \/ last'.op = "right" /\ HasSelected(M) /\ items[cursor].isDir
  \/ last'.op = "renameOk"

\* C5, as stated: a navigation to a directory that cannot be read leaves an
\* empty listing in normal mode, starts no command and sets an error status.
C5_UnreadableDirectoryShowsErrorStatus ==
  [][(NavigationStep /\ ~ReadDir(fs, currentPath').ok) =>
       /\ items' = <<>>
       /\ jobs' = jobs
       /\ mode' = "normal"
       /\ statusMessage'.kind = "err"]_vars

\* the name whose resolution SpecResolve follows
ResolveText ==
  CHOOSE t \in {j.name : j \in BagToSet(jobs)} \cup {r[1] : r \in returned} :
    TRUE

\* the stem of the claims: the name without its last dot and what follows it
ClaimStem(s) ==
  IF "." \notin Range(s) THEN s
  ELSE SubSeq(s, 1, (CHOOSE k \in 1..Len(s) :
                       s[k] = "." /\ \A l \in (k + 1)..Len(s) : s[l] # ".") - 1)

HasAlphabetic(s) ==
  \E i \in 1..Len(s) : s[i] \in Range(UpperCase) \cup Range(LowerCase)

RemoteNotCalled ==
  /\ remoteCalls = EmptyBag
  /\ \A j \in BagToSet(jobs) : j.pc # "remote"

\* a name outside cache and dictionary whose stem is short or has no letter
\* is returned unchanged, cached to itself, and never sent to the remote
UntranslatableKept(text) ==
  (/\ text \notin DOMAIN cache0
   /\ \A d \in staticTranslations : d[1] # text
   /\ \/ Len(ClaimStem(text)) <= 1
      \/ ~HasAlphabetic(ClaimStem(text)))
    => /\ RemoteNotCalled
       /\ returned \subseteq {<<text, text>>}
       /\ returned # {} => (text \in DOMAIN cache /\ cache[text] = text)

Xyz123 == <<"x","y","z","1","2","3">>

\* C6, as stated: "xyz123" resolved from an empty cache is returned unchanged,
\* cached to itself and never sent to the remote service; and so is every
\* name outside cache and dictionary whose stem is short or has no letter.
C6_Xyz123AndUntranslatableNamesKept ==
  /\ (cache0 = EmptyCache /\ ResolveText = Xyz123) =>
       /\ RemoteNotCalled
       /\ returned \subseteq {<<Xyz123, Xyz123>>}
       /\ returned # {} => cache = (Xyz123 :> Xyz123)
  /\ UntranslatableKept(ResolveText)

\* C6, amended: every name outside cache and dictionary whose stem has at
\* most one character or no letter is returned unchanged, cached to itself
\* and never sent to the remote service ("xyz123" is not such a name).
C6_UntranslatableNamesKept == UntranslatableKept(ResolveText)

\* C6, witness: the name "77" was resolved from an empty cache
C6_DigitsResolved ==
  /\ cache0 = EmptyCache
  /\ returned = {<<(<<"7","7">>), (<<"7","7">>)>>}
  /\ cache = (<<"7","7">> :> <<"7","7">>)

\* C7, as stated: all calls of translateText for one name return the same
\* translation, and the remote service is called at most once for it.
C7_SameTranslationAndOneRemoteCall ==
  /\ \A n \in BagToSet(remoteCalls) : CopiesIn(n, remoteCalls) <= 1
  /\ \A r1 \in returned : \A r2 \in returned : r1[1] = r2[1] => r1[2] = r2[2]

\* C8, as stated: a key of the cache keeps its value and is never removed.
C8_CacheWriteOnce ==
  [][\A k \in DOMAIN cache : k \in DOMAIN cache' /\ cache'[k] = cache[k]]_vars

\* C9: when the remote call of a command panics or returns an error,
\* translateText returns the name, the cache then maps the name to itself,
\* the message {name, name} is posted and no panic leaves translateText.
C9_RemoteFaultFallsBackToName ==
  [][\A j \in BagToSet(jobs) :
       (JobRemote(j) /\ last'.op \in {"err", "panic"}) =>
         /\ ~crashed'
         /\ j.name \in DOMAIN cache'
         /\ cache'[j.name] = j.name
         /\ <<j.name, j.name>> \in returned'
         /\ \E m \in BagToSet(tmsgs') :
              /\ m.name = j.name
              /\ m.translation = j.name
              /\ CopiesIn(m, tmsgs') = CopiesIn(m, tmsgs) + 1]_vars

\* C9, witness: a remote call panicked and the name's message is waiting
C9_PanicContained ==
  /\ last.op = "panic"
  /\ ~crashed
  /\ last.name \in DOMAIN cache
  /\ cache[last.name] = last.name
  /\ \E m \in BagToSet(tmsgs) : m.name = last.name /\ m.translation = last.name

ToLower(s) ==
  [i \in 1..Len(s) |->
     IF \E k \in 1..26 : UpperCase[k] = s[i]
       THEN LowerCase[CHOOSE k \in 1..26 : UpperCase[k] = s[i]]
       ELSE s[i]]

Desktop == <<"D","e","s","k","t","o","p">>

Bureau == <<"B","u","r","e","a","u">>

\* the call returned one of `values`, cached it, and made no remote call
ReturnsLocally(text, values) ==
  /\ RemoteNotCalled
  /\ returned \subseteq {<<text, v>> : v \in values}
  /\ returned # {} =>
       /\ text \in DOMAIN cache
       /\ <<text, cache[text]>> \in returned

\* C10: translateText returns the cached value of a cached name; otherwise the
\* value of the dictionary key equal to the name; otherwise the value of a
\* key equal to it ignoring case, cached under the name; never calling the
\* remote service.  "Desktop", "desktop" and "DESKTOP" give "Bureau".
C10_CacheThenDictionaryThenFold ==
  LET text   == ResolveText
      exact  == {d \in staticTranslations : d[1] = text}
      folded == {d \in staticTranslations : ToLower(d[1]) = ToLower(text)}
  IN  /\ text \in DOMAIN cache0 =>
           /\ ReturnsLocally(text, {cache0[text]})
           /\ cache = cache0
      /\ (text \notin DOMAIN cache0 /\ exact # {}) =>
           ReturnsLocally(text, {d[2] : d \in exact})
      /\ (text \notin DOMAIN cache0 /\ exact = {} /\ folded # {}) =>
           ReturnsLocally(text, {d[2] : d \in folded})
      /\ (text \notin DOMAIN cache0 /\ ToLower(text) = ToLower(Desktop)) =>
           ReturnsLocally(text, {Bureau})

\* C10, witness: "desktop" was resolved to "Bureau" through the dictionary
C10_LowerCaseDesktopResolved ==
  /\ cache0 = EmptyCache
  /\ returned = {<<ToLower(Desktop), Bureau>>}
  /\ cache = (ToLower(Desktop) :> Bureau)
  /\ remoteCalls = EmptyBag

\* the names SpecConcurrent resolves: a call is running, or its message waits
ConcurrentNames ==
  {j.name : j \in BagToSet(jobs)} \cup {m.name : m \in BagToSet(tmsgs)}

\* C11: when translateText runs side by side for distinct names, every call
\* that has returned left its name in the cache with the value it returned
\* and posted; once all have returned the cache holds every name, and the
\* keys it started with are kept with their values.
C11_DistinctNamesAllCached ==
  /\ \A m \in BagToSet(tmsgs) :
       /\ CopiesIn(m, tmsgs) = 1
       /\ m.name \in DOMAIN cache
       /\ cache[m.name] = m.translation
       /\ <<m.name, m.translation>> \in returned
  /\ \A r1 \in returned : \A r2 \in returned : r1[1] = r2[1] => r1 = r2
  /\ \A k \in DOMAIN cache0 : k \in DOMAIN cache /\ cache[k] = cache0[k]
  /\ jobs = EmptyBag =>
       /\ DOMAIN cache = ConcurrentNames \cup DOMAIN cache0
       /\ BagCardinality(tmsgs) = Cardinality(ConcurrentNames)

\* C11, witness: three calls for distinct names have all returned, one of
\* them through the remote service
C11_ThreeCallsCompleted ==
  /\ jobs = EmptyBag
  /\ BagCardinality(tmsgs) >= 3
  /\ remoteCalls # EmptyBag
  /\ \A m \in BagToSet(tmsgs) : cache[m.name] = m.translation

\* the enter key in normal mode with an entry selected: when `unusable`, the
\* mode stays normal with the no-translation status; otherwise the
\* confirmation opens for the selected entry with the cached translation as
\* proposed name and field value and an empty status; no command starts
EnterStep(unusable) ==
  (KeyEnter /\ HasSelected(M)) =>
    LET selected == items[cursor]
    IN  /\ jobs' = jobs /\ rjobs' = rjobs
        /\ currentPath' = currentPath /\ items' = items /\ cursor' = cursor
        /\ IF unusable
             THEN /\ mode' = "normal"
                  /\ statusMessage' = StatusNoTranslation
             ELSE /\ mode' = "confirm"
                  /\ itemToRename' = selected
                  /\ proposedName' = cache[selected.title]
                  /\ confirmInput' = cache[selected.title]
                  /\ statusMessage' = NoStatus

\* C12, as stated: enter on a selected entry whose name is not cached, or is
\* cached to itself, keeps normal mode, sets the no-translation status and
\* starts no command; otherwise it opens the confirmation with the selected
\* entry and the cached translation, status cleared.  The confirmation mode
\* is entered by this step only.
C12_EnterOpensConfirmationUnlessAbsentOrSame ==
  [][/\ EnterStep(\/ items[cursor].title \notin DOMAIN cache
                  \/ cache[items[cursor].title] = items[cursor].title)
     /\ (mode # "confirm" /\ mode' = "confirm") => KeyEnter]_vars

\* C12, amended: the same, where a name cached to the empty text counts as
\* having no translation too.
C12_EnterOpensConfirmationUnlessUnusable ==
  [][/\ EnterStep(\/ items[cursor].title \notin DOMAIN cache
                  \/ cache[items[cursor].title] = <<>>
                  \/ cache[items[cursor].title] = items[cursor].title)
     /\ (mode # "confirm" /\ mode' = "confirm") => KeyEnter]_vars

\* C12, witness: enter was pressed on an entry cached to another text and
\* the confirmation is open for it
C12_ConfirmationOpened ==
  /\ last.op = "enter"
  /\ mode = "confirm"
  /\ itemToRename = items[cursor]
  /\ proposedName # <<>>
  /\ proposedName # itemToRename.title
  /\ confirmInput = proposedName
  /\ statusMessage = NoStatus

\* a rename started from the confirmation shown is running, or its message
\* is not handled yet: the renaming status is set by the confirm key only,
\* and handling any renameCompleteMsg leaves the confirmation mode
RenameAwaited == mode = "confirm" /\ statusMessage = StatusRenaming

\* C13, as stated: the confirm key starts one rename of the entry to its
\* parent joined with the field's value (the proposed name when the field is
\* empty) and sets the renaming status; from then until the rename's message
\* is handled no key leaves the confirmation mode, changes the path or
\* changes the listing.
C13_ConfirmationHeldUntilRenameResult ==
  [][/\ KeyConfirmEnter =>
          LET newName == IF confirmInput = <<>> THEN proposedName
                                                ELSE confirmInput
              oldPath == itemToRename.path
          IN  /\ rjobs' = rjobs (+) SetToBag({[oldPath |-> oldPath,
                                               newPath |-> Join(Dir(oldPath),
                                                                newName)]})
              /\ statusMessage' = StatusRenaming
              /\ mode' = "confirm"
     /\ (RenameAwaited /\ keys' = keys + 1) =>
          /\ Pendings(rjobs, rmsgs) >= 1
          /\ mode' = "confirm"
          /\ currentPath' = currentPath
          /\ items' = items]_vars

\* the step shows `target`: its listing replaces the items, the selection is
\* the first entry, the status is empty, the mode is normal and the commands
\* of the listing, and no others, start
ShowsDirectory(target) ==
  LET listing == getDirectoryItems(fs, cache, target)
  IN  /\ currentPath' = target
      /\ items' = listing.items
      /\ cursor' = 1
      /\ statusMessage' = NoStatus
      /\ mode' = "normal"
      /\ jobs' = jobs (+) SetToBag({Job(n, target, "get") :
                                     n \in Range(listing.cmds)})
      /\ BagCardinality(jobs') = BagCardinality(jobs) + Len(listing.cmds)
      /\ rjobs' = rjobs

\* the step changes nothing of the model value and starts no command
SessionUnchanged ==
  /\ UNCHANGED <<currentPath, items, cursor, mode, confirmInput,
                 itemToRename, proposedName, statusMessage>>
  /\ jobs' = jobs
  /\ rjobs' = rjobs

\* C14: in normal mode the right key on a selected directory shows that
\* directory and the left key shows the parent when it differs from the
\* current path; the left key at the root and the right key on an entry that
\* is no directory change nothing and start no command.
C14_NavigationShowsTargetOrChangesNothing ==
  [][/\ KeyRight =>
          IF HasSelected(M) /\ items[cursor].isDir
            THEN ShowsDirectory(items[cursor].path)
            ELSE SessionUnchanged
     /\ KeyLeft =>
          IF Dir(currentPath) # currentPath
            THEN ShowsDirectory(Dir(currentPath))
            ELSE SessionUnchanged]_vars

\* C14, witness: the right key on the second entry opened its directory, and
\* the first entry of the new listing is selected while its command runs
C14_OpenedSecondEntry ==
  /\ last.op = "right"
  /\ currentPath = Join(Home, <<"a","b">>)
  /\ cursor = 1
  /\ Len(items) = 1
  /\ items[1].translating
  /\ \E j \in BagToSet(jobs) : j.dir = currentPath /\ j.name = items[1].title

\* the direct children of a directory whose name does not start with a dot
VisibleChildren(path) ==
  {q \in DOMAIN fs : /\ q # <<>>
                      /\ SubSeq(q, 1, Len(q) - 1) = path
                      /\ q[Len(q)][1] # "."}

\* C15: for every directory that can be read, getDirectoryItems returns one
\* item per direct child whose name does not start with a dot; an item whose
\* name is cached is not resolving and shows its type tag with the cached
\* translation, any other is resolving and shows the placeholder; and one
\* command is returned for each resolving item, none for another name.
C15_ListerEntriesAndJobs ==
  \A path \in {p \in DOMAIN fs : fs[p] = "dir"} :
    LET r         == getDirectoryItems(fs, cache, path)
        resolving == {i \in 1..Len(r.items) : r.items[i].translating}
    IN  /\ Len(r.items) = Cardinality(VisibleChildren(path))
        /\ {r.items[i].path : i \in 1..Len(r.items)} = VisibleChildren(path)
        /\ \A i \in 1..Len(r.items) :
             LET it  == r.items[i]
                 tag == IF fs[it.path] = "file" THEN "Fichier" ELSE "Dossier"
             IN  /\ it.title = it.path[Len(it.path)]
                 /\ it.isDir = (fs[it.path] # "file")
                 /\ it.translating = (it.title \notin DOMAIN cache)
                 /\ it.title \in DOMAIN cache =>
                      it.translation = [typeStr |-> tag,
                                        text |-> cache[it.title]]
                 /\ it.title \notin DOMAIN cache =>
                      it.translation = [typeStr |-> tag,
                                        text |-> <<".", ".", ".">>]
        /\ Len(r.cmds) = Cardinality(resolving)
        /\ {r.cmds[k] : k \in 1..Len(r.cmds)}
             = {r.items[i].title : i \in resolving}

\* C15, witness: the right key listed a directory that holds a hidden file;
\* the one item shown was cached already and no command started for it
C15_ListedDirectoryWithHiddenFile ==
  /\ last.op = "right"
  /\ Join(currentPath, <<".","c">>) \in DOMAIN fs
  /\ items = getDirectoryItems(fs, cache, currentPath).items
  /\ Len(items) = 1
  /\ ~items[1].translating
  /\ items[1].translation.text = cache[items[1].title]
  /\ \A j \in BagToSet(jobs) : j.dir # currentPath

\* C16: handling a translationMsg, in normal or confirmation mode, changes at
\* most one item, one whose title is the message's name: its label becomes
\* its own type tag with the message's translation and it stops resolving.
\* The mode, the path, the status, the selection, the order, titles, paths
\* and kinds of the items, the entry being renamed, the proposed name and
\* the field are kept, and no command starts.
C16_ResultMergedIntoOneEntryOnly ==
  [][\A msg \in BagToSet(tmsgs) : HandleTranslationMsg(msg) =>
       /\ UNCHANGED <<mode, currentPath, statusMessage, cursor, itemToRename,
                      proposedName, confirmInput>>
       /\ jobs' = jobs
       /\ rjobs' = rjobs
       /\ Len(items') = Len(items)
       /\ Cardinality({i \in 1..Len(items) : items'[i] # items[i]}) <= 1
       /\ \A i \in 1..Len(items) :
            /\ items'[i].title = items[i].title
            /\ items'[i].path = items[i].path
            /\ items'[i].isDir = items[i].isDir
            /\ items[i].title # msg.name => items'[i] = items[i]
            /\ items[i].title = msg.name =>
                 /\ ~items'[i].translating
                 /\ items'[i].translation =
                      [typeStr |-> IF items[i].isDir THEN "Dossier"
                                                     ELSE "Fichier",
                       text |-> msg.translation]]_vars

\* C16, witness: a result was merged into a directory's entry while the
\* confirmation was open
C16_ResultMergedDuringConfirmation ==
  /\ last.op = "translationMsg"
  /\ mode = "confirm"
  /\ \E i \in 1..Len(items) :
       /\ items[i].title = last.name
       /\ items[i].isDir
       /\ ~items[i].translating
       /\ items[i].translation.typeStr = "Dossier"

\* the names an entry can have: those of the startup filesystem and those a
\* rename can give
ShownNames == {<<"7">>, <<"a","b">>, <<"x","y">>}

Resolving(n) ==
  \E i \in 1..Len(items) : items[i].title = n /\ items[i].translating

\* C17: when goroutines and the event loop are scheduled fairly and every
\* remote call ends, an entry shown as resolving, the startup listing's
\* included, is later shown resolved or is no longer shown as resolving
\* because its listing was replaced.
C17_ResolvingEntriesGetResolved ==
  \A n \in ShownNames : Resolving(n) ~> ~Resolving(n)

\* C17, witness: the last result of the startup listing was merged and no
\* entry is resolving any more
C17_StartupListingResolved ==
  /\ last.op = "translationMsg"
  /\ keys = 0
  /\ Len(items) = 2
  /\ \A i \in 1..Len(items) : ~items[i].translating
  /\ Pendings(jobs, tmsgs) = 0

\* a translateNameCmd goroutine for the name is running, or its message is
\* not handled yet
ResolutionPending(n) ==
  \/ \E j \in BagToSet(jobs) : j.name = n
  \/ \E m \in BagToSet(tmsgs) : m.name = n

\* C18: once model.Init has started the startup listing's commands, every
\* item shown as resolving has a command for its name running or a message
\* for its name not handled yet.
C18_ResolvingEntryHasPendingResolution ==
  started =>
    \A i \in 1..Len(items) :
      items[i].translating => ResolutionPending(items[i].title)

\* C18, witness: the refresh after a rename shows the new name as resolving
\* and its command is running
C18_RefreshedEntryResolving ==
  /\ last.op = "renameOk"
  /\ \E i \in 1..Len(items) :
       /\ items[i].translating
       /\ items[i].title \notin {<<"7">>, <<"a","b">>}
       /\ \E j \in BagToSet(jobs) :
            j.name = items[i].title /\ j.dir = currentPath

\* C19: every item shown as not resolving has its name as a key of the
\* cache, so the enter key on such an item finds a cached value.
C19_ResolvedEntryIsCached ==
  \A i \in 1..Len(items) :
    ~items[i].translating =>
      /\ items[i].title \in DOMAIN cache
      /\ Get(cache, items[i].title).ok

\* C19, witness: the enter key was pressed on a resolved item whose name is
\* cached under itself
C19_EnterOnResolvedEntry ==
  /\ last.op = "enter"
  /\ statusMessage = StatusNoTranslation
  /\ HasSelected(M)
  /\ ~items[cursor].translating
  /\ Get(cache, items[cursor].title) =
       [val |-> items[cursor].title, ok |-> TRUE]

\* C20, as stated: when the enter key opens the confirmation for an item
\* that is not resolving, the proposed name is the translation shown in the
\* item's label.
C20_ProposedNameIsTranslationShown ==
  [][(KeyEnter /\ HasSelected(M) /\ mode' = "confirm"
        /\ ~items[cursor].translating) =>
       proposedName' = items[cursor].translation.text]_vars

=============================================================================
